---- MODULE Spec2Model ----
(***************************************************************************)
(* Model of the latest-tag selection of src/src/main.rs: get_tag_pattern   *)
(* (the anchored regular expression built from prefix, suffix and mode),   *)
(* the filter, semver::Version::parse with the 0.0.0 fallback, and the     *)
(* max_by reduction.  Strings are sequences of one-character strings.      *)
(***************************************************************************)
EXTENDS Integers, Sequences, FiniteSets

\* Longest tag list handed to get_latest_tag.
MaxTags == 3

-----------------------------------------------------------------------------
(* Characters.                                                             *)

\* The characters of the model in ascending byte order (str's Ord compares bytes).
Ascii ==
    << "(", ")", "-", ".", "0", "1", "2", "3", "4", "5", "6", "7", "8", "9",
       "a", "b", "c", "e", "r", "t", "v", "x" >>

Code(c) == CHOOSE i \in 1..Len(Ascii) : Ascii[i] = c

Digits == {"0", "1", "2", "3", "4", "5", "6", "7", "8", "9"}

Letters == {"a", "b", "c", "e", "r", "t", "v", "x"}

DigitVal(c) == Code(c) - Code("0")

IsDigit(c) == c \in Digits

Less == "Less"
Equal == "Equal"
Greater == "Greater"

\* Ord for integers (u64, usize).
CmpInt(a, b) == IF a < b THEN Less ELSE IF a > b THEN Greater ELSE Equal

\* Ord for str: bytewise lexicographic, a proper prefix is smaller.
RECURSIVE CmpStrFrom(_, _, _)
CmpStrFrom(a, b, i) ==
    IF i > Len(a) /\ i > Len(b) THEN Equal
    ELSE IF i > Len(a) THEN Less
    ELSE IF i > Len(b) THEN Greater
    ELSE IF Code(a[i]) < Code(b[i]) THEN Less
    ELSE IF Code(a[i]) > Code(b[i]) THEN Greater
    ELSE CmpStrFrom(a, b, i + 1)

CmpStr(a, b) == CmpStrFrom(a, b, 1)

\* &s[n..]: the bytes after the first n (in range only for n <= s.len()).
SliceFrom(s, n) == SubSeq(s, n + 1, Len(s))

-----------------------------------------------------------------------------
(* regex::Regex, for the patterns get_tag_pattern can build.               *)

RegexErr == [ok |-> FALSE, src |-> <<>>, toks |-> <<>>]

Tok(kind, ch) == [kind |-> kind, ch |-> ch, plus |-> FALSE]

\* Parses the pattern text into its items: ^ and $ assertions, literals,
\* the . wildcard, the \d class, \. as a literal dot, + on the item before it.
\* Groups only group, so they leave no item, but they have to balance.
RECURSIVE RegexParse(_, _, _, _)
RegexParse(src, i, depth, toks) ==
    IF i > Len(src)
    THEN IF depth = 0 THEN [ok |-> TRUE, src |-> src, toks |-> toks] ELSE RegexErr
    ELSE LET c == src[i] IN
         CASE c = "(" -> RegexParse(src, i + 1, depth + 1, toks)
           [] c = ")" -> IF depth = 0 THEN RegexErr
                         ELSE RegexParse(src, i + 1, depth - 1, toks)
           [] c = "^" -> RegexParse(src, i + 1, depth, Append(toks, Tok("start", "")))
           [] c = "$" -> RegexParse(src, i + 1, depth, Append(toks, Tok("end", "")))
           [] c = "." -> RegexParse(src, i + 1, depth, Append(toks, Tok("any", "")))
           [] c = "\\" ->
                IF i = Len(src) THEN RegexErr
                ELSE IF src[i + 1] = "d"
                THEN RegexParse(src, i + 2, depth, Append(toks, Tok("digit", "")))
                ELSE IF src[i + 1] = "."
                THEN RegexParse(src, i + 2, depth, Append(toks, Tok("lit", ".")))
                ELSE RegexErr
           [] c = "+" ->
                IF toks = <<>> \/ toks[Len(toks)].kind \in {"start", "end"}
                   \/ toks[Len(toks)].plus
                THEN RegexErr
                ELSE RegexParse(src, i + 1, depth,
                        [toks EXCEPT ![Len(toks)].plus = TRUE])
           [] OTHER -> RegexParse(src, i + 1, depth, Append(toks, Tok("lit", c)))

\* Regex::new that lets unbalanced groups through (the groups are dropped).
RegexNewLenient(src) ==
    RegexParse(SelectSeq(src, LAMBDA c : c \notin {"(", ")"}), 1, 0, <<>>)

\* Regex::new
RegexNew(src) == RegexParse(src, 1, 0, <<>>)

CharOk(t, c) ==
    CASE t.kind = "any" -> TRUE
      [] t.kind = "digit" -> IsDigit(c)
      [] OTHER -> t.ch = c

\* The items from i on match s from position j on (backtracking over +).
RECURSIVE MatchFrom(_, _, _, _)
MatchFrom(toks, i, s, j) ==
    IF i > Len(toks) THEN TRUE
    ELSE LET t == toks[i] IN
         CASE t.kind = "start" -> j = 1 /\ MatchFrom(toks, i + 1, s, j)
           [] t.kind = "end" -> j = Len(s) + 1 /\ MatchFrom(toks, i + 1, s, j)
           [] OTHER ->
                /\ j <= Len(s)
                /\ CharOk(t, s[j])
                /\ \/ MatchFrom(toks, i + 1, s, j + 1)
                   \/ t.plus /\ MatchFrom(toks, i, s, j + 1)

\* Regex::is_match: a match starting anywhere in the text.
IsMatch(re, s) == \E j \in 1..(Len(s) + 1) : MatchFrom(re.toks, 1, s, j)

-----------------------------------------------------------------------------
(* semver::Version, as parsed and ordered by the semver crate.             *)

ParseErr == [ok |-> FALSE, major |-> 0, minor |-> 0, patch |-> 0, pre |-> <<>>]

\* semver::Version::new
VersionNew(major, minor, patch) ==
    [ok |-> TRUE, major |-> major, minor |-> minor, patch |-> patch, pre |-> <<>>]

\* numeric_identifier: a run of ASCII digits without a leading zero.
RECURSIVE NumericLoop(_, _, _)
NumericLoop(input, len, value) ==
    IF len < Len(input) /\ IsDigit(input[len + 1])
    THEN IF value = 0 /\ len > 0
         THEN [ok |-> FALSE, value |-> 0, rest |-> <<>>]
         ELSE NumericLoop(input, len + 1, value * 10 + DigitVal(input[len + 1]))
    ELSE IF len > 0
         THEN [ok |-> TRUE, value |-> value, rest |-> SliceFrom(input, len)]
         ELSE [ok |-> FALSE, value |-> 0, rest |-> <<>>]

NumericIdentifier(input) == NumericLoop(input, 0, 0)

\* dot: the separator after major and after minor.
Dot(input) ==
    IF input # <<>> /\ input[1] = "."
    THEN [ok |-> TRUE, rest |-> SliceFrom(input, 1)]
    ELSE [ok |-> FALSE, rest |-> <<>>]

StartsWithZero(input, at) == at < Len(input) /\ input[at + 1] = "0"

\* identifier(input, Position::Pre): the dot-separated prerelease segments.
RECURSIVE IdentifierLoop(_, _, _, _)
IdentifierLoop(input, accumulated_len, segment_len, segment_has_nondigit) ==
    LET at == accumulated_len + segment_len
        boundary == IF at < Len(input) THEN input[at + 1] ELSE "" IN
    IF boundary \in Letters \cup {"-"}
    THEN IdentifierLoop(input, accumulated_len, segment_len + 1, TRUE)
    ELSE IF boundary \in Digits
    THEN IdentifierLoop(input, accumulated_len, segment_len + 1, segment_has_nondigit)
    ELSE IF segment_len = 0
    THEN IF accumulated_len = 0 /\ boundary # "."
         THEN [ok |-> TRUE, ident |-> <<>>, rest |-> input]
         ELSE [ok |-> FALSE, ident |-> <<>>, rest |-> <<>>]
    ELSE IF segment_len > 1 /\ ~segment_has_nondigit
            /\ StartsWithZero(input, accumulated_len)
    THEN [ok |-> FALSE, ident |-> <<>>, rest |-> <<>>]
    ELSE IF boundary = "."
    THEN IdentifierLoop(input, accumulated_len + segment_len + 1, 0, FALSE)
    ELSE [ok |-> TRUE, ident |-> SubSeq(input, 1, accumulated_len + segment_len),
          rest |-> SliceFrom(input, accumulated_len + segment_len)]

PrereleaseIdentifier(input) == IdentifierLoop(input, 0, 0, FALSE)

\* semver::Version::parse (the model's characters have no "+", so no build
\* metadata: any character left after the prerelease is an error).
VersionParse(text) ==
    IF text = <<>> THEN ParseErr
    ELSE
    LET major == NumericIdentifier(text) IN
    IF ~major.ok THEN ParseErr ELSE
    LET d1 == Dot(major.rest) IN
    IF ~d1.ok THEN ParseErr ELSE
    LET minor == NumericIdentifier(d1.rest) IN
    IF ~minor.ok THEN ParseErr ELSE
    LET d2 == Dot(minor.rest) IN
    IF ~d2.ok THEN ParseErr ELSE
    LET patch == NumericIdentifier(d2.rest) IN
    IF ~patch.ok THEN ParseErr ELSE
    IF patch.rest = <<>> THEN VersionNew(major.value, minor.value, patch.value)
    ELSE IF patch.rest[1] = "-"
    THEN LET pre == PrereleaseIdentifier(SliceFrom(patch.rest, 1)) IN
         IF ~pre.ok \/ pre.ident = <<>> \/ pre.rest # <<>> THEN ParseErr
         ELSE [ok |-> TRUE, major |-> major.value, minor |-> minor.value,
               patch |-> patch.value, pre |-> pre.ident]
    ELSE ParseErr

\* str::split('.')
RECURSIVE SplitDots(_, _, _)
SplitDots(s, i, cur) ==
    IF i > Len(s) THEN <<cur>>
    ELSE IF s[i] = "." THEN <<cur>> \o SplitDots(s, i + 1, <<>>)
    ELSE SplitDots(s, i + 1, Append(cur, s[i]))

AllDigits(s) == \A i \in 1..Len(s) : IsDigit(s[i])

\* Prerelease segments compared as text only.
CmpSegmentLexical(lhs, rhs) == CmpStr(lhs, rhs)

\* One prerelease segment against another: numeric ones by value (length,
\* then text), numeric below alphanumeric, alphanumeric ones as text.
CmpSegment(lhs, rhs) ==
    IF AllDigits(lhs) /\ AllDigits(rhs)
    THEN IF CmpInt(Len(lhs), Len(rhs)) # Equal THEN CmpInt(Len(lhs), Len(rhs))
         ELSE CmpStr(lhs, rhs)
    ELSE IF AllDigits(lhs) THEN Less
    ELSE IF AllDigits(rhs) THEN Greater
    ELSE CmpStr(lhs, rhs)

RECURSIVE CmpSegments(_, _, _)
CmpSegments(l, r, i) ==
    IF i > Len(l) THEN (IF i > Len(r) THEN Equal ELSE Less)
    ELSE IF i > Len(r) THEN Greater
    ELSE IF CmpSegment(l[i], r[i]) # Equal THEN CmpSegment(l[i], r[i])
    ELSE CmpSegments(l, r, i + 1)

\* Ord for semver::Prerelease: no prerelease is above any prerelease.
CmpPrerelease(lhs, rhs) ==
    IF lhs = <<>> THEN (IF rhs = <<>> THEN Equal ELSE Greater)
    ELSE IF rhs = <<>> THEN Less
    ELSE CmpSegments(SplitDots(lhs, 1, <<>>), SplitDots(rhs, 1, <<>>), 1)

\* Ord for semver::Version: major, minor, patch, then the prerelease.
CmpVersion(a, b) ==
    IF CmpInt(a.major, b.major) # Equal THEN CmpInt(a.major, b.major)
    ELSE IF CmpInt(a.minor, b.minor) # Equal THEN CmpInt(a.minor, b.minor)
    ELSE IF CmpInt(a.patch, b.patch) # Equal THEN CmpInt(a.patch, b.patch)
    ELSE CmpPrerelease(a.pre, b.pre)

\* Version::parse(..).unwrap_or(Version::new(0, 0, 0))
UnwrapOrZero(parsed) == IF parsed.ok THEN parsed ELSE VersionNew(0, 0, 0)

-----------------------------------------------------------------------------
(* The inputs: tag names, prefixes and suffixes the caller can pass.        *)

v1_0_0 == << "v", "1", ".", "0", ".", "0" >>
v2_0_0 == << "v", "2", ".", "0", ".", "0" >>
v0_0_0 == << "v", "0", ".", "0", ".", "0" >>
v1x0_0 == << "v", "1", "x", "0", ".", "0" >>
v1_0_0_beta_2 == << "v", "1", ".", "0", ".", "0", "-", "b", "e", "t", "a", ".", "2" >>
v1_0_0_beta_10 ==
    << "v", "1", ".", "0", ".", "0", "-", "b", "e", "t", "a", ".", "1", "0" >>
v1_0_0_beta_03 ==
    << "v", "1", ".", "0", ".", "0", "-", "b", "e", "t", "a", ".", "0", "3" >>
v0_0_0_beta_1 == << "v", "0", ".", "0", ".", "0", "-", "b", "e", "t", "a", ".", "1" >>
v1_0_0_rc_1 == << "v", "1", ".", "0", ".", "0", "-", "r", "c", ".", "1" >>

TagNames ==
    { v1_0_0, v2_0_0, v0_0_0, v1x0_0, v1_0_0_beta_2, v1_0_0_beta_10, v1_0_0_beta_03,
      v0_0_0_beta_1, v1_0_0_rc_1 }

TagLists == UNION { [1..n -> TagNames] : n \in 0..MaxTags }

\* "v"; "(" is no valid pattern; "(((v)))" is a valid one longer than "v1.0.0".
Prefixes == { << "v" >>, << "(" >>, << "(", "(", "(", "v", ")", ")", ")" >> }

Suffixes == { << "b", "e", "t", "a" >>, << "(" >> }

-----------------------------------------------------------------------------
(* get_tag_pattern and get_latest_tag.                                     *)

\* \d+.\d+.\d+ as written in both format strings.
VersionPart ==
    << "\\", "d", "+", ".", "\\", "d", "+", ".", "\\", "d", "+" >>

\* The stable pattern without its closing anchor.
PatternTextNoEnd(prerelease, tag_prefix, prerelease_suffix) ==
    IF prerelease
    THEN << "^" >> \o tag_prefix \o VersionPart \o << "-" >> \o prerelease_suffix
            \o << "\\", ".", "\\", "d", "+", "$" >>
    ELSE << "^" >> \o tag_prefix \o VersionPart

\* The prerelease pattern taking any label in place of the suffix.
PatternTextAnyLabel(prerelease, tag_prefix, prerelease_suffix) ==
    IF prerelease
    THEN << "^" >> \o tag_prefix \o VersionPart \o << "-", ".", "+" >>
            \o << "\\", ".", "\\", "d", "+", "$" >>
    ELSE << "^" >> \o tag_prefix \o VersionPart \o << "$" >>

\* The format! of the two branches.
PatternText(prerelease, tag_prefix, prerelease_suffix) ==
    IF prerelease
    THEN << "^" >> \o tag_prefix \o VersionPart \o << "-" >> \o prerelease_suffix
            \o << "\\", ".", "\\", "d", "+", "$" >>
    ELSE << "^" >> \o tag_prefix \o VersionPart \o << "$" >>

get_tag_pattern(prerelease, tag_prefix, prerelease_suffix) ==
    RegexNew(PatternText(prerelease, tag_prefix, prerelease_suffix))

\* No filtering: every tag is kept.
FilterTagsAll(re, ts) == ts

\* tags.into_iter().filter(|tag| tag_pattern.is_match(tag)).collect()
FilterTags(re, ts) == SelectSeq(ts, LAMBDA tag : IsMatch(re, tag))

\* &a[tag_prefix.len()..] panics when the tag is shorter than the prefix.
SliceInRange(tag, tag_prefix) == Len(tag_prefix) <= Len(tag)

\* Version::parse(&a[tag_prefix.len()..]).unwrap_or(Version::new(0, 0, 0))
ParsedVersion(tag, tag_prefix) ==
    UnwrapOrZero(VersionParse(SliceFrom(tag, Len(tag_prefix))))

\* The closure given to max_by.
CompareTags(a, b, tag_prefix) ==
    IF ~SliceInRange(a, tag_prefix) \/ ~SliceInRange(b, tag_prefix) THEN "Panic"
    ELSE CmpVersion(ParsedVersion(a, tag_prefix), ParsedVersion(b, tag_prefix))

\* A reduce that keeps the earlier element on a tie.
MaxByFoldFirst(x, y, ord) == IF ord = Less THEN y ELSE x

\* One step of Iterator::max_by's reduce: the kept element x against the next y;
\* x stays only when it compares Greater.
MaxByFold(x, y, ord) == IF ord = Greater THEN x ELSE y

Pending == [kind |-> "Pending", value |-> <<>>]
RegexError == [kind |-> "RegexError", value |-> <<>>]
Panicked == [kind |-> "Panic", value |-> <<>>]
Ok(tag) == [kind |-> "Ok", value |-> tag]
NoTagsFound(re) ==
    [kind |-> "NoTagsFound", value |-> << "No tags found matching pattern: " >> \o re.src]

VARIABLES tags, tag_prefix, prerelease_suffix, prerelease,
          pc, tag_pattern, filtered, idx, latest_tag, result

vars == << tags, tag_prefix, prerelease_suffix, prerelease,
           pc, tag_pattern, filtered, idx, latest_tag, result >>

args == << tags, tag_prefix, prerelease_suffix, prerelease >>

Init ==
    /\ tags \in TagLists
    /\ tag_prefix \in Prefixes
    /\ prerelease_suffix \in Suffixes
    /\ prerelease \in BOOLEAN
    /\ pc = "get_tag_pattern"
    /\ tag_pattern = RegexErr
    /\ filtered = <<>>
    /\ idx = 0
    /\ latest_tag = <<>>
    /\ result = Pending

\* let tag_pattern = get_tag_pattern(..)?;
CompilePattern ==
    /\ pc = "get_tag_pattern"
    /\ tag_pattern' = get_tag_pattern(prerelease, tag_prefix, prerelease_suffix)
    /\ IF tag_pattern'.ok
       THEN pc' = "filter" /\ result' = result
       ELSE pc' = "done" /\ result' = RegexError
    /\ UNCHANGED << args, filtered, idx, latest_tag >>

\* let tags = tags.into_iter().filter(..).collect();
Filter ==
    /\ pc = "filter"
    /\ filtered' = FilterTags(tag_pattern, tags)
    /\ pc' = "max_by"
    /\ UNCHANGED << args, tag_pattern, idx, latest_tag, result >>

\* max_by takes the next element: the first is kept as it is, every later one
\* goes through the closure against the kept one.
MaxByNext ==
    /\ pc = "max_by"
    /\ idx < Len(filtered)
    /\ idx' = idx + 1
    /\ IF latest_tag = <<>>
       THEN latest_tag' = << filtered[idx + 1] >> /\ pc' = pc /\ result' = result
       ELSE LET ord == CompareTags(latest_tag[1], filtered[idx + 1], tag_prefix) IN
            IF ord = "Panic"
            THEN latest_tag' = latest_tag /\ pc' = "done" /\ result' = Panicked
            ELSE /\ latest_tag' = << MaxByFold(latest_tag[1], filtered[idx + 1], ord) >>
                 /\ pc' = pc
                 /\ result' = result
    /\ UNCHANGED << args, tag_pattern, filtered >>

\* if let Some(tag) = latest_tag { Ok(tag) } else { Err("No tags found ...") }
Return ==
    /\ pc = "max_by"
    /\ idx = Len(filtered)
    /\ result' = IF latest_tag # <<>> THEN Ok(latest_tag[1])
                 ELSE NoTagsFound(tag_pattern)
    /\ pc' = "done"
    /\ UNCHANGED << args, tag_pattern, filtered, idx, latest_tag >>

Next == CompilePattern \/ Filter \/ MaxByNext \/ Return

Spec == Init /\ [][Next]_vars

-----------------------------------------------------------------------------
(* get_latest_tag as a function of its arguments.                          *)

\* max_by over ts[i..], x being the element kept so far.
RECURSIVE MaxByFrom(_, _, _, _)
MaxByFrom(x, ts, i, prefix) ==
    IF i > Len(ts) THEN Ok(x)
    ELSE LET ord == CompareTags(x, ts[i], prefix) IN
         IF ord = "Panic" THEN Panicked
         ELSE MaxByFrom(MaxByFold(x, ts[i], ord), ts, i + 1, prefix)

\* The function from the compiled pattern on.
LatestWith(re, ts, prefix) ==
    IF ~re.ok THEN RegexError
    ELSE LET kept == FilterTags(re, ts) IN
         IF kept = <<>> THEN NoTagsFound(re)
         ELSE MaxByFrom(kept[1], kept, 2, prefix)

get_latest_tag(ts, prefix, suffix, pre) ==
    LatestWith(get_tag_pattern(pre, prefix, suffix), ts, prefix)

Done == pc = "done"

\* The run of the function ends in the value of the function.
RunComputesFunction ==
    Done => result = get_latest_tag(tags, tag_prefix, prerelease_suffix, prerelease)

-----------------------------------------------------------------------------
(* Vocabulary of the properties, read off the tag text alone.              *)

Range(f) == { f[i] : i \in DOMAIN f }

Metacharacters == { "(", ")", ".", "\\", "+", "^", "$" }

\* Free of pattern metacharacters.
PlainText(s) == \A i \in 1..Len(s) : s[i] \notin Metacharacters

HasPrefix(t, p) == Len(p) <= Len(t) /\ SubSeq(t, 1, Len(p)) = p

\* <digits>.<digits>.<digits> with literal dots.
IsDottedTriple(s) ==
    LET parts == SplitDots(s, 1, <<>>) IN
    Len(parts) = 3 /\ \A i \in 1..3 : parts[i] # <<>> /\ AllDigits(parts[i])

\* <prefix><digits>.<digits>.<digits>
IsStableShape(t, p) == HasPrefix(t, p) /\ IsDottedTriple(SliceFrom(t, Len(p)))

RECURSIVE TrailingDigits(_)
TrailingDigits(t) ==
    IF t # <<>> /\ IsDigit(t[Len(t)])
    THEN 1 + TrailingDigits(SubSeq(t, 1, Len(t) - 1))
    ELSE 0

\* The text ends with -<label>.<digits>.
EndsWithLabelCounter(t, label) ==
    LET n == TrailingDigits(t)
        m == Len(label) + 2 IN
    /\ n >= 1
    /\ Len(t) >= n + m
    /\ SubSeq(t, Len(t) - n - m + 1, Len(t) - n) = << "-" >> \o label \o << "." >>

\* The text ends with -<letters>.<digits>: it carries a prerelease identifier.
CarriesPrerelease(t) ==
    LET n == TrailingDigits(t)
        head == SubSeq(t, 1, Len(t) - n - 1) IN
    /\ n >= 1
    /\ Len(t) >= n + 3
    /\ t[Len(t) - n] = "."
    /\ \E k \in 1..Len(head) :
          /\ k < Len(head)
          /\ head[k] = "-"
          /\ \A i \in (k + 1)..Len(head) : head[i] \in Letters

RECURSIVE DecimalValue(_)
DecimalValue(s) ==
    IF s = <<>> THEN 0
    ELSE 10 * DecimalValue(SubSeq(s, 1, Len(s) - 1)) + DigitVal(s[Len(s)])

\* The counter at the end of a tag, read as an integer.
Counter(t) == DecimalValue(SubSeq(t, Len(t) - TrailingDigits(t) + 1, Len(t)))

\* What is between the prefix and -<label>.<digits>.
Core(t, p, label) ==
    SubSeq(t, Len(p) + 1, Len(t) - TrailingDigits(t) - Len(label) - 2)

\* The remainder after the prefix parses as a semantic version.
Parses(t, p) == SliceInRange(t, p) /\ VersionParse(SliceFrom(t, Len(p))).ok

NotBelow(t, u, p) == CmpVersion(ParsedVersion(t, p), ParsedVersion(u, p)) # Less

SameVersion(t, u, p) == CmpVersion(ParsedVersion(t, p), ParsedVersion(u, p)) = Equal

Above(t, u, p) == CmpVersion(ParsedVersion(t, p), ParsedVersion(u, p)) = Greater

\* The pattern text has a group that is never closed or never opened.
RECURSIVE UnbalancedFrom(_, _, _)
UnbalancedFrom(text, i, depth) ==
    IF i > Len(text) THEN depth # 0
    ELSE IF text[i] = "(" THEN UnbalancedFrom(text, i + 1, depth + 1)
    ELSE IF text[i] = ")" THEN depth = 0 \/ UnbalancedFrom(text, i + 1, depth - 1)
    ELSE UnbalancedFrom(text, i + 1, depth)

\* The prefix and suffix in use cannot form a pattern.
InvalidRule ==
    UnbalancedFrom(<< "^" >> \o tag_prefix
                   \o (IF prerelease THEN prerelease_suffix ELSE <<>>), 1, 0)

\* Some tag of the input passes the filter in use.
SomeTagMatches ==
    \E i \in 1..Len(tags) :
        IsMatch(RegexNew(PatternText(prerelease, tag_prefix, prerelease_suffix)),
                tags[i])

\* The reorderings of the positions of a list of each length.
Reorderings ==
    [n \in 0..MaxTags |->
        { f \in [1..n -> 1..n] : \A i, j \in 1..n : f[i] = f[j] => i = j }]

Permuted(ts, f) == [i \in 1..Len(ts) |-> ts[f[i]]]

-----------------------------------------------------------------------------
(* The properties.                                                         *)

\* C1: whenever at least one tag matches the active filter, get_latest_tag
\* returns Ok with a member of the filtered list whose parsed Version (0.0.0
\* when parsing fails) is not below that of any other filtered tag.
C1_LatestIsMaximalMember ==
    (Done /\ ~InvalidRule /\ SomeTagMatches) =>
        /\ result.kind = "Ok"
        /\ result.value \in Range(filtered)
        /\ \A t \in Range(filtered) : NotBelow(result.value, t, tag_prefix)

\* C2: in stable mode no tag carrying a prerelease identifier is returned, and
\* the outcome is the one obtained on the list with the prerelease tags removed.
C2_StableIgnoresPrereleases ==
    (Done /\ ~prerelease) =>
        /\ result.kind = "Ok" => ~CarriesPrerelease(result.value)
        /\ result = get_latest_tag(
                        SelectSeq(tags, LAMBDA t : ~CarriesPrerelease(t)),
                        tag_prefix, prerelease_suffix, FALSE)

\* C2 witness: stable mode returned a tag although the list holds a prerelease
\* tag of a higher version.
C2_Witness ==
    /\ Done /\ ~prerelease /\ PlainText(tag_prefix)
    /\ result.kind = "Ok"
    /\ Parses(result.value, tag_prefix)
    /\ \E t \in Range(tags) :
          /\ CarriesPrerelease(t)
          /\ Parses(t, tag_prefix)
          /\ ParsedVersion(t, tag_prefix).major
                > ParsedVersion(result.value, tag_prefix).major

\* A stable tag under the prefix: <prefix><major>.<minor>.<patch>, parseable.
IsStableTag(t, p) ==
    HasPrefix(t, p) /\ Parses(t, p) /\ ParsedVersion(t, p).pre = <<>>

\* A prerelease tag under the prefix with the configured suffix.
IsSuffixTag(t, p, label) ==
    HasPrefix(t, p) /\ Parses(t, p) /\ EndsWithLabelCounter(t, label)
    /\ ParsedVersion(t, p).pre # <<>>

PlainConfig == PlainText(tag_prefix) /\ PlainText(prerelease_suffix)

C4_NoSurvivorIsNoTagsFound ==
    (Done /\ ~InvalidRule /\ ~SomeTagMatches) =>
        /\ result.kind = "NoTagsFound"
        /\ result.value = << "No tags found matching pattern: " >>
                \o PatternText(prerelease, tag_prefix, prerelease_suffix)

\* C4 witness: a non-empty list of which nothing passed the filter ended in the
\* error.
C4_Witness ==
    /\ Done /\ ~InvalidRule /\ ~SomeTagMatches
    /\ tags # <<>>
    /\ result.kind = "NoTagsFound"

\* C5 as stated: in prerelease mode, of two surviving tags with the same
\* major.minor.patch text and the same suffix, the one with the smaller counter
\* (as an integer) is never the result.
C5_Original ==
    (Done /\ prerelease) =>
        \A t, u \in Range(filtered) :
            ( /\ Core(t, tag_prefix, prerelease_suffix)
                    = Core(u, tag_prefix, prerelease_suffix)
              /\ IsDottedTriple(Core(t, tag_prefix, prerelease_suffix))
              /\ Counter(t) > Counter(u) )
            => (result.kind = "Ok" /\ result.value # u)

\* C5 amended: in prerelease mode, of two surviving tags that both parse as
\* semantic versions (no leading zero in the counter) and share major.minor.patch
\* and suffix, the one with the smaller counter is never the result, whatever
\* their order in the list.
C5_NumericCounterOrder ==
    (Done /\ prerelease) =>
        \A t, u \in Range(filtered) :
            ( /\ Parses(t, tag_prefix) /\ Parses(u, tag_prefix)
              /\ Core(t, tag_prefix, prerelease_suffix)
                    = Core(u, tag_prefix, prerelease_suffix)
              /\ Counter(t) > Counter(u) )
            => (result.kind = "Ok" /\ result.value # u)

\* C5 witness: counter 10 listed before counter 2 for the same version, and the
\* tag with counter 10 returned.
C5_Witness ==
    /\ Done /\ prerelease
    /\ tags = << v1_0_0_beta_10, v1_0_0_beta_2 >>
    /\ result = Ok(v1_0_0_beta_10)

\* C6: whenever the filtered list holds a tag that parses, the result is a tag
\* that parses, never an unparseable one.
C6_UnparseableNeverWins ==
    ( /\ Done /\ ~InvalidRule
      /\ \E t \in Range(filtered) : Parses(t, tag_prefix) ) =>
        (result.kind = "Ok" /\ Parses(result.value, tag_prefix))

\* C7: in stable mode with a plain prefix, the tags that pass the filter are
\* exactly those of the form <prefix><digits>.<digits>.<digits>.
C7_StableFilterIsDottedTriple ==
    (Done /\ ~prerelease /\ PlainText(tag_prefix)) =>
        /\ filtered = SelectSeq(tags, LAMBDA t : IsStableShape(t, tag_prefix))
        /\ result.kind = "Ok" => IsStableShape(result.value, tag_prefix)

C9_InvalidRuleFailsFirst ==
    InvalidRule =>
        /\ pc \in {"get_tag_pattern", "done"}
        /\ filtered = <<>> /\ idx = 0 /\ latest_tag = <<>>
        /\ Done => result = RegexError

\* C9 witness: the configuration error on the empty list.
C9_Witness == Done /\ InvalidRule /\ tags = <<>> /\ result = RegexError

\* Every surviving tag can be cut after the prefix, so each has a parsed Version.
AllParsed == \A t \in Range(filtered) : SliceInRange(t, tag_prefix)

\* The last position of the filtered list holding a maximal Version.
LastMaximal ==
    CHOOSE i \in 1..Len(filtered) :
        /\ \A j \in 1..Len(filtered) : NotBelow(filtered[i], filtered[j], tag_prefix)
        /\ \A j \in (i + 1)..Len(filtered) :
              ~SameVersion(filtered[i], filtered[j], tag_prefix)

PairwiseDistinct ==
    \A i, j \in 1..Len(filtered) :
        i # j => ~SameVersion(filtered[i], filtered[j], tag_prefix)

\* C10: of the surviving tags with the maximal Version the last one in the list
\* is returned; and if the surviving tags have pairwise distinct Versions, every
\* reordering of the list gives the same result.
C10_LastMaximalWins ==
    (Done /\ ~InvalidRule /\ filtered # <<>> /\ AllParsed) =>
        /\ result = Ok(filtered[LastMaximal])
        /\ PairwiseDistinct =>
              \A f \in Reorderings[Len(tags)] :
                  LatestWith(tag_pattern, Permuted(tags, f), tag_prefix) = result

\* C10 witness: two different tags of the same maximal Version (one of them
\* unparseable, ranked 0.0.0), the later one returned.
C10_Witness ==
    /\ Done /\ AllParsed
    /\ \E i, j \in 1..Len(filtered) :
          /\ i < j
          /\ filtered[i] # filtered[j]
          /\ SameVersion(filtered[i], filtered[j], tag_prefix)
          /\ j = LastMaximal
          /\ result = Ok(filtered[j])

====
